---- MODULE Spec2Model ----
(***************************************************************************)
(* Model of the brewery data pipeline of src/task1_3.py: main fetches a    *)
(* payload, writes it to the bronze layer, normalizes it into the silver   *)
(* layer (partitioned by location), aggregates it per location into the    *)
(* gold layer, pinning the normalized table in between.                    *)
(*                                                                         *)
(* Representation.  A nullable text column holds <<>> (SQL NULL) or <<s>>. *)
(* A payload entry carries the three fields the transformations read       *)
(* (brewery_type, country, state) and a count n: it stands for n          *)
(* consecutive equal entries (n = 1 is a single entry), so that groups     *)
(* beyond the 32-bit range can be written down.  Sums and counts are       *)
(* 64-bit in Spark (BIGINT); they are kept as two limbs [hi, lo] of base   *)
(* 2^16.  A table on storage is a bag of rows, absent before it is         *)
(* written.                                                                *)
(***************************************************************************)
EXTENDS Bags, FiniteSets, Integers, Sequences, TLC

\* ---------------------------------------------------------------- bounds
MaxLen == 2        \* entries of a payload, single-run specifications
MaxLenRun == 1     \* entries of a payload, multi-run specification
MaxRuns == 2       \* runs of main in one behaviour

\* ------------------------------------------------------------- constants
Base == 65536                 \* limb base, 2^16
IntLimbTop == 32768           \* 2^31 / Base: first hi limb beyond INT
MaxInt == 2147483647          \* largest 32-bit signed integer

NULL == <<>>
Str(s) == <<s>>

TimeStamps == {"20240101_120000", "20240101_120001"}

\* -------------------------------------------------------------- payloads
KnownTypes == {"brewpub", "proprietor", "contract", "closed", "micro", "large"}

Entry(t, c, s, n) == [brewery_type |-> t, country |-> c, state |-> s, n |-> n]

\* entries of the single-run specification: every category, a category in
\* another case, an unknown one, a missing one; every combination of
\* missing country and state, and an empty country
EntriesFn ==
    {Entry(Str(t), Str("USA"), Str("CA"), 1) : t \in KnownTypes \cup {"Micro", "unknown_type"}}
    \cup {Entry(NULL, Str("USA"), Str("CA"), 1)}
    \cup {Entry(Str("micro"), c, s, 1) : c \in {NULL, Str("USA")}, s \in {NULL, Str("CA")}}
    \cup {Entry(Str("micro"), Str(""), Str("CA"), 1)}

\* entries of the large-group specification: groups at the INT boundary
EntriesBig ==
    { Entry(Str("micro"), Str("USA"), Str("CA"), 1),
      Entry(Str("micro"), Str("USA"), Str("CA"), MaxInt),
      Entry(Str("large"), Str("USA"), Str("CA"), MaxInt),
      Entry(Str("brewpub"), NULL, Str("CA"), 1) }

\* entries of the multi-run specification
EntriesRun ==
    { Entry(Str("micro"), Str("USA"), Str("CA"), 1),
      Entry(Str("brewpub"), NULL, Str("CA"), 1) }

SeqUpTo(S, k) == UNION {[1..m -> S] : m \in 0..k}

\* response.text: a JSON list of entries, text that json.loads rejects, or
\* JSON that createDataFrame rejects (not a list of records of text fields)
Payloads(E, k) ==
    {[kind |-> "list", entries |-> es] : es \in SeqUpTo(E, k)}
    \cup {[kind |-> "bad_json", entries |-> <<>>], [kind |-> "bad_shape", entries |-> <<>>]}

NoData == [kind |-> "none", entries |-> <<>>]

\* --------------------------------------------------------------- storage
Absent == [exists |-> FALSE, rows |-> EmptyBag]
Table(rows) == [exists |-> TRUE, rows |-> rows]

RECURSIVE BagOfSeq(_)
BagOfSeq(s) == IF s = <<>> THEN EmptyBag ELSE SetToBag({Head(s)}) (+) BagOfSeq(Tail(s))

\* df.write.mode('overwrite').parquet(path = <root>date_request=<ts>):
\* the leaf of ts is replaced by the rows written, other leaves are kept
AppendLeaf(lake, ts, rows) ==
    [lake EXCEPT ![ts] = Table(lake[ts].rows (+) rows)]
OverwriteRoot(lake, ts, rows) ==
    [t \in DOMAIN lake |-> IF t = ts THEN Table(rows) ELSE Absent]
OverwriteLeaf(lake, ts, rows) ==
    [lake EXCEPT ![ts] = Table(rows)]

\* a write job that fails leaves its leaf as it was, or already deleted
FailedWriteLeaves(lake, ts) == {lake, [lake EXCEPT ![ts] = Absent]}

\* ------------------------------------------------------- SQL expressions
\* COALESCE(a, b)
COALESCE(a, b) == IF a # NULL THEN a ELSE b

\* CONCAT(a, b, c): NULL as soon as one argument is NULL
CONCAT(a, b, c) ==
    IF a = NULL \/ b = NULL \/ c = NULL THEN NULL ELSE Str(a[1] \o b[1] \o c[1])

\* col = 'lit' (three-valued)
SqlEq(col, lit) ==
    IF col = NULL THEN "unknown" ELSE IF col[1] = lit THEN "true" ELSE "false"

\* col NOT IN (lits) for a list without NULL (three-valued)
SqlNotIn(col, lits) ==
    IF col = NULL THEN "unknown" ELSE IF col[1] \in lits THEN "false" ELSE "true"

\* CASE WHEN cond THEN 1 ELSE 0 END
CaseWhen(cond) == IF cond = "true" THEN 1 ELSE 0

\* ------------------------------------------------------ 64-bit counters
LongZero == [hi |-> 0, lo |-> 0]
LongOfInt(n) == [hi |-> n \div Base, lo |-> n % Base]
LongAdd(a, b) ==
    LET lo == a.lo + b.lo
    IN  [hi |-> a.hi + b.hi + (lo \div Base), lo |-> lo % Base]

\* CAST(x AS INT) of a non-negative BIGINT
CastOverflows(x) == x.hi >= IntLimbTop
CastNoWrap(x) == x.hi * Base + x.lo
CastWrap(x) ==
    LET h == x.hi % Base
    IN  IF h >= IntLimbTop THEN (h - Base) * Base + x.lo ELSE h * Base + x.lo

\* -------------------------------------------------- create_tabular_layer
LocationStateSentinel(country, state) ==
    CONCAT(COALESCE(country, Str("NotDefinedCountry")), Str("-"),
           COALESCE(state, Str("NotDefinedState")))
\* CONCAT(COALESCE(country,'NotDefinedCountry'),'-',COALESCE(state,'NotDefinedCountry'))
Location(country, state) ==
    CONCAT(COALESCE(country, Str("NotDefinedCountry")), Str("-"),
           COALESCE(state, Str("NotDefinedCountry")))

\* the SELECT of df_data_lake_2, one row per entry
NormalizedRow(e, ts) ==
    [date_request |-> ts, brewery_type |-> e.brewery_type, country |-> e.country,
     state |-> e.state, location |-> Location(e.country, e.state), n |-> e.n]

Normalize(entries, ts) == [i \in DOMAIN entries |-> NormalizedRow(entries[i], ts)]

\* partitionBy('location'): the column becomes the sub-path of the row
PartitionDir(v) == IF v = NULL THEN "__HIVE_DEFAULT_PARTITION__" ELSE v[1]

PartitionByCountry(r) ==
    [partition |-> PartitionDir(r.country),
     row |-> [date_request |-> r.date_request, brewery_type |-> r.brewery_type,
              country |-> r.country, state |-> r.state, n |-> r.n]]
PartitionBy(r) ==
    [partition |-> PartitionDir(r.location),
     row |-> [date_request |-> r.date_request, brewery_type |-> r.brewery_type,
              country |-> r.country, state |-> r.state, n |-> r.n]]

SilverRows(df) == BagOfSeq([i \in DOMAIN df |-> PartitionBy(df[i])])

\* ----------------------------------------------- create_analytical_layer
\* analytics_table_p1: the seven CASE expressions of one row
IndicatorRow(r) ==
    [date_request |-> r.date_request, location |-> r.location, n |-> r.n,
     brewpub    |-> CaseWhen(SqlEq(r.brewery_type, "brewpub")),
     proprietor |-> CaseWhen(SqlEq(r.brewery_type, "proprietor")),
     contract   |-> CaseWhen(SqlEq(r.brewery_type, "contract")),
     closed     |-> CaseWhen(SqlEq(r.brewery_type, "closed")),
     micro      |-> CaseWhen(SqlEq(r.brewery_type, "micro")),
     large      |-> CaseWhen(SqlEq(r.brewery_type, "large")),
     other      |-> CaseWhen(SqlNotIn(r.brewery_type,
                        {"brewpub", "proprietor", "contract", "closed", "micro", "large"}))]

Table_p1(df) == [i \in DOMAIN df |-> IndicatorRow(df[i])]

\* GROUP BY date_request, location
GroupKey(r) == <<r.date_request, r.location>>
GroupKeys(p1) == {GroupKey(p1[i]) : i \in DOMAIN p1}

\* sum(col) over the rows of a group; a row of count n adds col n times
RECURSIVE SumCol(_, _, _)
SumCol(p1, key, col) ==
    IF p1 = <<>> THEN LongZero
    ELSE LET r == Head(p1)
         IN  IF GroupKey(r) = key
             THEN LongAdd(LongOfInt(r[col] * r.n), SumCol(Tail(p1), key, col))
             ELSE SumCol(Tail(p1), key, col)

\* COUNT(0) over the rows of a group
RECURSIVE CountRows(_, _)
CountRows(p1, key) ==
    IF p1 = <<>> THEN LongZero
    ELSE LET r == Head(p1)
         IN  IF GroupKey(r) = key
             THEN LongAdd(LongOfInt(r.n), CountRows(Tail(p1), key))
             ELSE CountRows(Tail(p1), key)

\* analytics_table_p2: one row per group, BIGINT columns
Table_p2(p1) ==
    { [date_request |-> k[1], location |-> k[2],
       tot_brewpub    |-> SumCol(p1, k, "brewpub"),
       tot_proprietor |-> SumCol(p1, k, "proprietor"),
       tot_contract   |-> SumCol(p1, k, "contract"),
       tot_closed     |-> SumCol(p1, k, "closed"),
       tot_micro      |-> SumCol(p1, k, "micro"),
       tot_large      |-> SumCol(p1, k, "large"),
       tot_other      |-> SumCol(p1, k, "other"),
       tot_brewery    |-> CountRows(p1, k)] : k \in GroupKeys(p1) }

TotCols == {"tot_brewpub", "tot_proprietor", "tot_contract", "tot_closed",
            "tot_micro", "tot_large", "tot_other", "tot_brewery"}

\* the casts of analytics_table_p3 raise (ANSI mode only)
CastRaises(p2, ansiMode) ==
    ansiMode /\ \E r \in p2 : \E c \in TotCols : CastOverflows(r[c])

\* CAST(col AS INT) as the session evaluates it when it does not raise
CastInt(x) == IF CastOverflows(x) THEN CastWrap(x) ELSE CastNoWrap(x)

\* analytics_table_p3
Table_p3(p2) ==
    { [date_request |-> r.date_request, location |-> r.location,
       tot_brewpub    |-> CastInt(r.tot_brewpub),
       tot_proprietor |-> CastInt(r.tot_proprietor),
       tot_contract   |-> CastInt(r.tot_contract),
       tot_closed     |-> CastInt(r.tot_closed),
       tot_micro      |-> CastInt(r.tot_micro),
       tot_large      |-> CastInt(r.tot_large),
       tot_other      |-> CastInt(r.tot_other),
       tot_brewery    |-> CastInt(r.tot_brewery)] : r \in p2 }

\* create_raw_data_layer: line = [(date_request, data)]
RawRows(d, ts) == SetToBag({[data_request |-> ts, response |-> d]})

VARIABLES
    pc,                \* position of main
    runs,              \* runs of main started
    ansi,              \* spark.sql.ansi.enabled of the session
    data,              \* main: data
    date_request,      \* main: date_request
    lake1, lake2, lake3,   \* the three destination roots, by timestamp
    df_data_lake_2,    \* main: the normalized table (rows in order)
    pinned,            \* df_data_lake_2 is marked persistent
    cached,            \* the pinned table is materialized in memory
    evaluations,       \* times the plan of df_data_lake_2 was executed
    analytics_table_p1,
    analytics_table_p3,
    failure,           \* step that raised, "none" otherwise
    log,               \* events of the current run, in order
    start,             \* the three roots when the current run started
    prev               \* the run before, if it completed

vars == <<pc, runs, ansi, data, date_request, lake1, lake2, lake3,
          df_data_lake_2, pinned, cached, evaluations, analytics_table_p1,
          analytics_table_p3, failure, log, start, prev>>

Lakes == [l1 |-> lake1, l2 |-> lake2, l3 |-> lake3]
EmptyLake == [t \in TimeStamps |-> Absent]
NoPrev == [valid |-> FALSE, data |-> NoData, date_request |-> "",
           lakes |-> [l1 |-> EmptyLake, l2 |-> EmptyLake, l3 |-> EmptyLake]]

\* create_spark_session, then main up to its first call
Init ==
    /\ pc = "get_data"
    /\ runs = 1
    /\ ansi \in BOOLEAN
    /\ data = NoData
    /\ date_request = ""
    /\ lake1 = EmptyLake /\ lake2 = EmptyLake /\ lake3 = EmptyLake
    /\ df_data_lake_2 = <<>>
    /\ pinned = FALSE
    /\ cached = FALSE
    /\ evaluations = 0
    /\ analytics_table_p1 = <<>>
    /\ analytics_table_p3 = {}
    /\ failure = "none"
    /\ log = <<>>
    /\ start = [l1 |-> EmptyLake, l2 |-> EmptyLake, l3 |-> EmptyLake]
    /\ prev = NoPrev

\* ------------------------------------------------------------------ main
\* the call of main that follows a call that returned
NextCall(step) ==
    CASE step = "get_data" -> "create_raw_data_layer"
      [] step = "create_raw_data_layer" -> "create_tabular_layer"
      [] step = "create_tabular_layer" -> "persist"
      [] step = "persist" -> "create_analytical_layer"
      [] step = "create_analytical_layer" -> "unpersist"
      [] step = "unpersist" -> "done"

\* where main is after a call that raised: nothing catches, main ends
OnErrorContinue(step) == NextCall(step)
OnError(step) == "failed"

Raise(step, what) ==
    /\ pc' = OnError(step)
    /\ failure' = what

\* executing the plan of df_data_lake_2 computes it unless it is cached
Evaluate ==
    /\ evaluations' = evaluations + (IF pinned /\ cached THEN 0 ELSE 1)
    /\ cached' = pinned

\* requests.get raises, or returns any text; the clock gives any timestamp
get_data(P) ==
    /\ pc = "get_data"
    /\ \/ /\ Raise("get_data", "get_data")
          /\ UNCHANGED <<data, date_request, log>>
       \/ /\ data' \in P
          /\ date_request' \in TimeStamps
          /\ pc' = NextCall("get_data")
          /\ log' = Append(log, "get_data")
          /\ UNCHANGED failure
    /\ UNCHANGED <<runs, ansi, lake1, lake2, lake3, df_data_lake_2, pinned, cached,
                   evaluations, analytics_table_p1, analytics_table_p3, start, prev>>

create_raw_data_layer ==
    /\ pc = "create_raw_data_layer"
    /\ \/ /\ lake1' = OverwriteLeaf(lake1, date_request, RawRows(data, date_request))
          /\ pc' = NextCall("create_raw_data_layer")
          /\ log' = Append(log, "raw_write")
          /\ UNCHANGED failure
       \/ /\ lake1' \in FailedWriteLeaves(lake1, date_request)
          /\ Raise("create_raw_data_layer", "raw_write")
          /\ UNCHANGED log
    /\ UNCHANGED <<runs, ansi, data, date_request, lake2, lake3, df_data_lake_2, pinned,
                   cached, evaluations, analytics_table_p1, analytics_table_p3, start, prev>>

create_tabular_layer ==
    /\ pc = "create_tabular_layer"
    /\ \/ \* json.loads or createDataFrame raises
          /\ data.kind # "list"
          /\ Raise("create_tabular_layer", "parse")
          /\ UNCHANGED <<lake2, df_data_lake_2, cached, evaluations, log>>
       \/ /\ data.kind = "list"
          /\ LET df == Normalize(data.entries, date_request)
             IN  \/ /\ lake2' = OverwriteLeaf(lake2, date_request, SilverRows(df))
                    /\ Evaluate
                    /\ df_data_lake_2' = df
                    /\ pc' = NextCall("create_tabular_layer")
                    /\ log' = Append(log, "silver_write")
                    /\ UNCHANGED failure
                 \/ /\ lake2' \in FailedWriteLeaves(lake2, date_request)
                    /\ Raise("create_tabular_layer", "silver_write")
                    /\ UNCHANGED <<df_data_lake_2, cached, evaluations, log>>
    /\ UNCHANGED <<runs, ansi, data, date_request, lake1, lake3, pinned,
                   analytics_table_p1, analytics_table_p3, start, prev>>

\* df_data_lake_2.persist()
persist ==
    /\ pc = "persist"
    /\ pinned' = TRUE
    /\ pc' = NextCall("persist")
    /\ log' = Append(log, "persist")
    /\ UNCHANGED <<runs, ansi, data, date_request, lake1, lake2, lake3, df_data_lake_2,
                   cached, evaluations, analytics_table_p1, analytics_table_p3,
                   failure, start, prev>>

create_analytical_layer ==
    /\ pc = "create_analytical_layer"
    /\ LET p1 == Table_p1(df_data_lake_2)
           p2 == Table_p2(p1)
           p3 == Table_p3(p2)
       IN  /\ analytics_table_p1' = p1
           /\ \/ /\ ~CastRaises(p2, ansi)
                 /\ lake3' = OverwriteLeaf(lake3, date_request, SetToBag(p3))
                 /\ analytics_table_p3' = p3
                 /\ Evaluate
                 /\ pc' = NextCall("create_analytical_layer")
                 /\ log' = Append(Append(log, "gold_read"), "gold_write")
                 /\ UNCHANGED failure
              \/ /\ lake3' \in FailedWriteLeaves(lake3, date_request)
                 /\ Raise("create_analytical_layer",
                          IF CastRaises(p2, ansi) THEN "cast" ELSE "gold_write")
                 /\ UNCHANGED <<analytics_table_p3, cached, evaluations, log>>
    /\ UNCHANGED <<runs, ansi, data, date_request, lake1, lake2, df_data_lake_2, pinned,
                   start, prev>>

\* df_data_lake_2.unpersist()
unpersist ==
    /\ pc = "unpersist"
    /\ pinned' = FALSE
    /\ cached' = FALSE
    /\ pc' = NextCall("unpersist")
    /\ log' = Append(log, "unpersist")
    /\ UNCHANGED <<runs, ansi, data, date_request, lake1, lake2, lake3, df_data_lake_2,
                   evaluations, analytics_table_p1, analytics_table_p3, failure,
                   start, prev>>

\* main is started again, in a new process, on the same storage
NewRun ==
    /\ pc \in {"done", "failed"}
    /\ runs < MaxRuns
    /\ runs' = runs + 1
    /\ prev' = IF pc = "done"
               THEN [valid |-> TRUE, data |-> data, date_request |-> date_request,
                     lakes |-> Lakes]
               ELSE NoPrev
    /\ start' = Lakes
    /\ pc' = "get_data"
    /\ data' = NoData
    /\ date_request' = ""
    /\ df_data_lake_2' = <<>>
    /\ pinned' = FALSE
    /\ cached' = FALSE
    /\ evaluations' = 0
    /\ analytics_table_p1' = <<>>
    /\ analytics_table_p3' = {}
    /\ failure' = "none"
    /\ log' = <<>>
    /\ UNCHANGED <<ansi, lake1, lake2, lake3>>

\* repeated runs over small payloads
Next ==
    \/ get_data(Payloads(EntriesRun, MaxLenRun))
    \/ create_raw_data_layer
    \/ create_tabular_layer
    \/ persist
    \/ create_analytical_layer
    \/ unpersist
    \/ NewRun

Spec == Init /\ [][Next]_vars

\* one run over every kind of entry
NextFn ==
    \/ get_data(Payloads(EntriesFn, MaxLen))
    \/ create_raw_data_layer
    \/ create_tabular_layer
    \/ persist
    \/ create_analytical_layer
    \/ unpersist

SpecFn == Init /\ [][NextFn]_vars

\* one run over groups at the INT boundary
NextBig ==
    \/ get_data(Payloads(EntriesBig, MaxLen))
    \/ create_raw_data_layer
    \/ create_tabular_layer
    \/ persist
    \/ create_analytical_layer
    \/ unpersist

SpecBig == Init /\ [][NextBig]_vars

\* ================================================================ claims
GoldRows(ts) == BagToSet(lake3[ts].rows)
SilverParts(ts) == {e.partition : e \in BagToSet(lake2[ts].rows)}
Completed == pc \in {"unpersist", "done"}
Pos(ev) == IF \E i \in DOMAIN log : log[i] = ev
           THEN CHOOSE i \in DOMAIN log : log[i] = ev ELSE 0
Logged(ev) == Pos(ev) > 0
IndicatorCols == {"brewpub", "proprietor", "contract", "closed", "micro", "large", "other"}

\* C1: every row written by create_analytical_layer has its seven category
\* counters adding up to tot_brewery, whatever the payload (entries without
\* brewery_type included).
C1_CountersSumToTotal ==
    \A ts \in TimeStamps : \A r \in GoldRows(ts) :
        r.tot_brewpub + r.tot_proprietor + r.tot_contract + r.tot_closed
            + r.tot_micro + r.tot_large + r.tot_other = r.tot_brewery

\* C2: each normalized record sets exactly one indicator to 1: the one named
\* like its brewery_type when that is one of the six categories (exact
\* case), 'other' for any other value and for a missing brewery_type.
ExpectedCategory(bt) == IF bt # NULL /\ bt[1] \in KnownTypes THEN bt[1] ELSE "other"
C2_ExactlyOneIndicator ==
    \A i \in DOMAIN analytics_table_p1 :
        \A c \in IndicatorCols :
            analytics_table_p1[i][c] =
                IF c = ExpectedCategory(df_data_lake_2[i].brewery_type) THEN 1 ELSE 0

\* C3: every record create_tabular_layer returns has a location that is not
\* null and is country (or 'NotDefinedCountry'), '-', state (or the same
\* 'NotDefinedCountry').
TextOr(v, dflt) == IF v = NULL THEN dflt ELSE v[1]
C3_LocationIsCountryDashState ==
    \A i \in DOMAIN df_data_lake_2 :
        LET r == df_data_lake_2[i]
        IN  /\ r.location # NULL
            /\ r.location = Str(TextOr(r.country, "NotDefinedCountry") \o "-"
                                \o TextOr(r.state, "NotDefinedCountry"))
C3_Witness ==
    \E i \in DOMAIN df_data_lake_2 :
        /\ df_data_lake_2[i].country = NULL
        /\ df_data_lake_2[i].state = NULL
        /\ df_data_lake_2[i].location = Str("NotDefinedCountry-NotDefinedCountry")

\* C4: a failure aborts the run at its step: the writes of later steps are
\* not performed and the writes of earlier steps stay.  A failure of
\* get_data leaves the three tables as they were; a parse failure of
\* create_tabular_layer comes with the raw partition of the run written and
\* the normalized and aggregate tables as they were.
RawTable == Table(RawRows(data, date_request))
C4_FailureAbortsAtItsStep ==
    /\ failure # "none" => pc = "failed"
    /\ failure = "get_data" => Lakes = start /\ log = <<>>
    /\ failure = "raw_write" => lake2 = start.l2 /\ lake3 = start.l3
    /\ failure = "parse" =>
          /\ lake1[date_request] = RawTable
          /\ lake2 = start.l2 /\ lake3 = start.l3
    /\ failure = "silver_write" =>
          /\ lake1[date_request] = RawTable
          /\ lake3 = start.l3
    /\ failure \in {"cast", "gold_write"} =>
          /\ lake1[date_request] = RawTable
          /\ lake2[date_request] = Table(SilverRows(df_data_lake_2))
C4_Witness ==
    /\ failure = "parse"
    /\ lake1[date_request] = RawTable
    /\ \E t \in TimeStamps : start.l2[t].exists /\ start.l3[t].exists

\* C5: within a run the normalized table is computed once; it is pinned
\* before the silver write starts and released after the aggregate write
\* has ended.
C5_PinnedBeforeSilverWrite ==
    /\ Logged("silver_write") => Logged("persist") /\ Pos("persist") < Pos("silver_write")
    /\ Logged("unpersist") => Logged("gold_write") /\ Pos("gold_write") < Pos("unpersist")
    /\ pc = "done" => evaluations = 1

\* C6: a run with timestamp TS leaves every partition of another timestamp,
\* in each of the three roots, with the content it had when the run started.
C6_OtherPartitionsUntouched ==
    /\ date_request = "" => Lakes = start
    /\ \A t \in TimeStamps \ {date_request} :
          /\ lake1[t] = start.l1[t]
          /\ lake2[t] = start.l2[t]
          /\ lake3[t] = start.l3[t]
C6_Witness ==
    /\ pc = "done"
    /\ \E t \in TimeStamps \ {date_request} :
          /\ start.l1[t].exists /\ start.l2[t].exists /\ start.l3[t].exists
          /\ start.l2[t].rows # EmptyBag
    /\ ~start.l1[date_request].exists
    /\ lake1[date_request].exists /\ lake2[date_request].exists /\ lake3[date_request].exists

\* C7: a completed run that follows a completed run with the same payload
\* and the same timestamp leaves the three tables as the first run left them.
C7_SecondRunChangesNothing ==
    (/\ pc = "done"
     /\ prev.valid
     /\ prev.data = data
     /\ prev.date_request = date_request) => Lakes = prev.lakes
C7_Witness ==
    /\ pc = "done"
    /\ prev.valid
    /\ prev.data = data
    /\ prev.date_request = date_request
    /\ data.entries # <<>>
    /\ lake2[date_request].rows # EmptyBag
    /\ Lakes = prev.lakes

\* C8: when a run completes, the location sub-partitions under its silver
\* leaf are the distinct locations of the rows in its gold leaf.
C8_PartitionsAreGoldLocations ==
    Completed =>
        SilverParts(date_request) = {PartitionDir(r.location) : r \in GoldRows(date_request)}
C8_Witness ==
    /\ pc = "done"
    /\ SilverParts(date_request) # {}
    /\ prev.valid
    /\ prev.date_request = date_request
    /\ {e.partition : e \in BagToSet(prev.lakes.l2[date_request].rows)}
          \notin {{}, SilverParts(date_request)}

\* C9: create_analytical_layer never writes a tot_* column whose counter
\* did not fit a 32-bit signed integer: the cast fails the run instead.
C9_CastNeverWraps ==
    Logged("gold_write") =>
        \A r \in Table_p2(analytics_table_p1) : \A c \in TotCols : ~CastOverflows(r[c])

\* C10: the aggregate table has one row per distinct location of the
\* normalized records, whose tot_brewery is the number of records with that
\* location; the empty payload gives no partition, no row and no error of
\* the transformations.
RECURSIVE RecordsAt(_, _, _)
RecordsAt(df, loc, i) ==
    IF i = 0 THEN LongZero
    ELSE LongAdd(RecordsAt(df, loc, i - 1),
                 IF df[i].location = loc THEN LongOfInt(df[i].n) ELSE LongZero)
C10_OneRowPerLocationWithItsCount ==
    /\ Completed =>
          /\ \A r \in DOMAIN lake3[date_request].rows : lake3[date_request].rows[r] = 1
          /\ {r.location : r \in GoldRows(date_request)}
                = {df_data_lake_2[i].location : i \in DOMAIN df_data_lake_2}
          /\ \A r, q \in GoldRows(date_request) : r.location = q.location => r = q
          /\ \A r \in GoldRows(date_request) :
                LongOfInt(r.tot_brewery)
                    = RecordsAt(df_data_lake_2, r.location, Len(df_data_lake_2))
          /\ data.entries = <<>> =>
                SilverParts(date_request) = {} /\ GoldRows(date_request) = {}
    /\ (data.kind = "list" /\ data.entries = <<>>) => failure \notin {"parse", "cast"}

====
